---- MODULE Spec2Model ----
(***************************************************************************)
(* Model of daylio2markdown (src/daylio2markdown/__main__.py):             *)
(*   - write_file_if_unchanged, the idempotent write primitive;            *)
(*   - DaylioJournal.__init__, the journal decoder (timestamp dedup and    *)
(*     reference resolution);                                              *)
(*   - main, the export driver (skip policy, counters, re-runs).           *)
(* Files are modelled as functions from file name to content whose DOMAIN  *)
(* is the set of files that exist (os.path.exists).                        *)
(***************************************************************************)
EXTENDS Integers, Sequences, FiniteSets, TLC

VARIABLES
    \* ---- write_file_if_unchanged called on its own
    fs,             \* the directory the primitive writes to
    call,           \* arguments of the last call, <<path, bytes>>, or <<>>
    ret,            \* return value of the last call
    before,         \* the directory as it was before the last call
    again,          \* the last call repeated the arguments of the call before it
    \* ---- DaylioJournal.__init__
    data,           \* the parsed JSON document (json.loads of the backup)
    dpc,            \* position of the decoder
    raised,         \* the exception that ended the decoder, "" for none
    version,        \* self.version
    tags,           \* self.tags: id -> DaylioTag
    custom_moods,   \* self.custom_moods: id -> DaylioMood
    assets,         \* self.assets: id -> DaylioAsset
    day_entries,    \* self.day_entries
    seen_entry_timestamps,
    di,             \* index of day_entry in data['dayEntries']
    epochtime,      \* the local of the dedup loop
    \* ---- main
    overwrite, ignore_version, skip_empty,      \* the options
    markdown,       \* the notes directory: file name -> content
    images,         \* the assets directory: file name -> content
    pc,             \* position of main
    ei,             \* index of daily_entry in journal.day_entries
    si,             \* index of the next write of the entry (its assets, then its note)
    written,        \* the local of main
    skipped_existing_asset, skipped_existing_note, skipped_empty,
    exported_note, exported_asset,
    note_writes,    \* note files this run wrote (created or changed)
    asset_writes,   \* asset files this run wrote (created or changed)
    run,            \* 1: the first run of the program, 2: the run after it
    killed1,        \* the first run was terminated before it ended
    run1_writes,    \* files the first run wrote
    markdown0,      \* the notes directory before the first run
    images0         \* the assets directory before the first run

writeVars == <<fs, call, ret, before, again>>
decodeVars == <<data, dpc, raised, version, tags, custom_moods, assets,
                day_entries, seen_entry_timestamps, di, epochtime>>
counters == <<skipped_existing_asset, skipped_existing_note, skipped_empty,
              exported_note, exported_asset>>
options == <<overwrite, ignore_version, skip_empty>>
history == <<run, killed1, run1_writes, markdown0, images0>>
mainVars == <<overwrite, ignore_version, skip_empty, markdown, images, pc, ei, si,
              written, skipped_existing_asset, skipped_existing_note, skipped_empty,
              exported_note, exported_asset, note_writes, asset_writes,
              run, killed1, run1_writes, markdown0, images0>>
vars == <<fs, call, ret, before, again, data, dpc, raised, version, tags,
          custom_moods, assets, day_entries, seen_entry_timestamps, di, epochtime,
          overwrite, ignore_version, skip_empty, markdown, images, pc, ei, si,
          written, skipped_existing_asset, skipped_existing_note, skipped_empty,
          exported_note, exported_asset, note_writes, asset_writes,
          run, killed1, run1_writes, markdown0, images0>>

-----------------------------------------------------------------------------
(* Bounds *)
MaxDayEntries == 3      \* length of data['dayEntries']
MaxTime == 1            \* source datetimes are 0..MaxTime (ms after a base instant)
MaxExportEntries == 1   \* entries of the journals that are exported

(* Program constants *)
SUPPORTED_VERSION == 15
PHOTO == 1
AUDIO == 2

-----------------------------------------------------------------------------
(* write_file_if_unchanged                                                 *)

\* nothing reaches the disk
WriteNothing(dir, path, bytes) == dir

\* open(path, 'wb'); f.write(bytes): the file exists afterwards and holds bytes
WriteBytes(dir, path, bytes) ==
    [p \in (DOMAIN dir) \cup {path} |-> IF p = path THEN bytes ELSE dir[p]]

\* the comparison with the existing content left out: every call writes
write_file_always(dir, path, bytes) ==
    [dir |-> WriteBytes(dir, path, bytes), written |-> TRUE]

\* the result is the directory after the call and the returned flag
write_file_if_unchanged(dir, path, bytes) ==
    IF path \in DOMAIN dir /\ dir[path] = bytes
    THEN [dir |-> dir, written |-> FALSE]
    ELSE [dir |-> WriteBytes(dir, path, bytes), written |-> TRUE]

WPaths == {"p1", "p2"}
WBytes == {"", "x", "y"}
Dirs(P, B) == UNION {[S -> B] : S \in SUBSET P}

\* the decoder at rest, for the specifications that do not run it
DecoderIdle ==
    /\ data = [version |-> SUPPORTED_VERSION, tags |-> {}, customMoods |-> {},
               assets |-> <<>>, dayEntries |-> <<>>]
    /\ dpc = "idle"
    /\ raised = ""
    /\ version = 0
    /\ tags = <<>>
    /\ custom_moods = <<>>
    /\ assets = <<>>
    /\ day_entries = <<>>
    /\ seen_entry_timestamps = {}
    /\ di = 0
    /\ epochtime = 0

\* main at rest, for the specifications that do not run it
MainIdle ==
    /\ overwrite = FALSE /\ ignore_version = FALSE /\ skip_empty = FALSE
    /\ markdown = <<>> /\ images = <<>>
    /\ pc = "idle"
    /\ ei = 0 /\ si = 0
    /\ written = FALSE
    /\ skipped_existing_asset = 0 /\ skipped_existing_note = 0 /\ skipped_empty = 0
    /\ exported_note = 0 /\ exported_asset = 0
    /\ note_writes = 0 /\ asset_writes = 0
    /\ run = 0 /\ killed1 = FALSE /\ run1_writes = 0
    /\ markdown0 = <<>> /\ images0 = <<>>

InitWrite ==
    /\ DecoderIdle
    /\ MainIdle
    /\ fs \in Dirs(WPaths, WBytes)
    /\ call = <<>>
    /\ ret = FALSE
    /\ before = fs
    /\ again = FALSE

\* one call of the primitive, the directory and the result recorded
DoCall(path, bytes) ==
    LET r == write_file_if_unchanged(fs, path, bytes) IN
    /\ fs' = r.dir
    /\ ret' = r.written
    /\ call' = <<path, bytes>>
    /\ before' = fs

\* a call with any arguments
CallWrite ==
    /\ \E path \in WPaths, bytes \in WBytes : DoCall(path, bytes)
    /\ again' = FALSE
    /\ UNCHANGED decodeVars
    /\ UNCHANGED mainVars

\* the same call once more, right after the last one
RepeatWrite ==
    /\ call # <<>>
    /\ DoCall(call[1], call[2])
    /\ again' = TRUE
    /\ UNCHANGED decodeVars
    /\ UNCHANGED mainVars

NextWrite == CallWrite \/ RepeatWrite

SpecWrite == InitWrite /\ [][NextWrite]_vars

\* C5: after a call of write_file_if_unchanged(path, bytes): if the file
\* existed with identical content nothing was written, the directory is
\* unchanged and the call returned false; otherwise the file now holds exactly
\* bytes, no other file changed and the call returned true; and a call that
\* repeats the arguments of the call right before it returns false.
WriteIdempotent ==
    call # <<>> =>
        LET path == call[1]
            bytes == call[2]
            same == path \in DOMAIN before /\ before[path] = bytes
        IN  /\ same => (fs = before /\ ret = FALSE)
            /\ ~same => /\ ret = TRUE
                         /\ DOMAIN fs = (DOMAIN before) \cup {path}
                         /\ fs[path] = bytes
                         /\ \A p \in DOMAIN before : p # path => fs[p] = before[p]
            /\ again => (ret = FALSE /\ fs = before)

\* a call that wrote was repeated, and the repetition wrote nothing
WriteIdempotentWitness ==
    /\ again
    /\ ret = FALSE
    /\ call # <<>>
    /\ call[1] \in DOMAIN fs
    /\ fs[call[1]] = call[2]

-----------------------------------------------------------------------------
(* DaylioJournal.__init__ : the journal decoder                            *)

DaylioTag(id, name) == [id |-> id, name |-> name]
DaylioMood(id, custom_name) == [id |-> id, custom_name |-> custom_name]
DaylioAsset(id, type) == [id |-> id, type |-> type, checksum |-> id]
None == [id |-> 0]

\* datetime.datetime.fromtimestamp(epochtime / 1000, tz): the instant, in
\* microseconds (the resolution of datetime); the zone does not move it
fromtimestamp(ms) == ms * 1000

\* the millisecond value a decoded timestamp was made from
EffectiveMs(entry) == entry.timestamp \div 1000

\* dict.get: an absent key yields None and nothing is raised
GetOrNone(map, key) ==
    [raised |-> FALSE, value |-> IF key \in DOMAIN map THEN map[key] ELSE None]

\* map[key]: the object stored under key, KeyError when the key is absent
GetItem(map, key) ==
    IF key \in DOMAIN map
    THEN [raised |-> FALSE, value |-> map[key]]
    ELSE [raised |-> TRUE, value |-> None]

\* the dedup loop never entered
NeverColliding(t, seen) == FALSE

\* while epochtime in seen_entry_timestamps
Colliding(t, seen) == t \in seen

\* a step of two milliseconds
IncrementTwo(t) == t + 2

\* epochtime += 1
Increment(t) == t + 1

\* DaylioDayEntry(...) of one day_entry at the timestamp the dedup loop found
BuildEntry(maps, src, ms) ==
    LET m == GetItem(maps.custom_moods, src.mood)
        tg == [k \in 1..Len(src.tags) |-> GetItem(maps.tags, src.tags[k])]
        as == [k \in 1..Len(src.assets) |-> GetItem(maps.assets, src.assets[k])]
    IN  [raised |-> \/ m.raised
                    \/ \E k \in 1..Len(tg) : tg[k].raised
                    \/ \E k \in 1..Len(as) : as[k].raised,
         entry |-> [id |-> src.id,
                    timestamp |-> fromtimestamp(ms),
                    mood |-> m.value,
                    note_html |-> src.note,
                    note_title |-> src.note_title,
                    tags |-> [k \in 1..Len(tg) |-> tg[k].value],
                    assets |-> [k \in 1..Len(as) |-> as[k].value]]]

\* ---- the documents the decoder is run on
Versions == {SUPPORTED_VERSION, SUPPORTED_VERSION + 1}
Times == 0..MaxTime
\* the tags, moods and assets of the documents: ids 1 and 2; in the second
\* asset array the record of asset 2 has an unknown type
TagCatalogs == {1 :> "a" @@ 2 :> "b c"}
MoodCatalogs == {1 :> "fine" @@ 2 :> "tired"}
AssetCatalogs == {1 :> PHOTO @@ 2 :> AUDIO, 1 :> PHOTO @@ 2 :> 3}

\* the references of a day_entry: two that resolve, and one each with a mood,
\* a tag and an asset id (3) that no document defines
RefShapes ==
    { [mood |-> 1, tags |-> <<1>>, assets |-> <<1>>],
      [mood |-> 2, tags |-> <<2, 1>>, assets |-> <<1, 2>>],
      [mood |-> 3, tags |-> <<>>, assets |-> <<>>],
      [mood |-> 1, tags |-> <<1, 3>>, assets |-> <<>>],
      [mood |-> 1, tags |-> <<>>, assets |-> <<2, 3>>] }

\* data['dayEntries'] with the datetimes t and the references r
DayEntryArray(n, t, r) ==
    [i \in 1..n |-> [id |-> i,
                     datetime |-> t[i],
                     mood |-> r[i].mood,
                     tags |-> r[i].tags,
                     assets |-> r[i].assets,
                     note |-> "",
                     note_title |-> ""]]

WriteIdle ==
    fs = <<>> /\ call = <<>> /\ ret = FALSE /\ before = <<>> /\ again = FALSE

\* the decoder before its first statement
DecoderStart ==
    /\ dpc = "start"
    /\ raised = ""
    /\ version = 0
    /\ tags = <<>>
    /\ custom_moods = <<>>
    /\ assets = <<>>
    /\ day_entries = <<>>
    /\ seen_entry_timestamps = {}
    /\ di = 0
    /\ epochtime = 0

InitDecode ==
    /\ MainIdle
    /\ WriteIdle
    /\ \E n \in 0..MaxDayEntries :
         \E t \in [1..n -> Times], r \in [1..n -> RefShapes] :
           \E v \in Versions, tc \in TagCatalogs, mc \in MoodCatalogs, ac \in AssetCatalogs :
             data = [version |-> v, tags |-> tc, customMoods |-> mc, assets |-> ac,
                     dayEntries |-> DayEntryArray(n, t, r)]
    /\ DecoderStart

\* the asset records whose type is neither AUDIO nor PHOTO
BadAssets == {i \in DOMAIN data.assets : data.assets[i] \notin {AUDIO, PHOTO}}

\* lines 145-180: the three maps of a document, keyed by id
MapsOf(doc) ==
    [tags |-> [i \in DOMAIN doc.tags |-> DaylioTag(i, doc.tags[i])],
     custom_moods |-> [i \in DOMAIN doc.customMoods |-> DaylioMood(i, doc.customMoods[i])],
     assets |-> [i \in DOMAIN doc.assets |-> DaylioAsset(i, doc.assets[i])]]

\* lines 189-191 run to their end: the first timestamp from ms on that is free
RECURSIVE FreeTimestamp(_, _)
FreeTimestamp(ms, seen) ==
    IF Colliding(ms, seen) THEN FreeTimestamp(Increment(ms), seen) ELSE ms

\* lines 187-209 run to their end from day_entry st.di on: the entries decoded,
\* or the KeyError of the first day_entry that does not resolve
RECURSIVE DecodeEntries(_, _, _)
DecodeEntries(doc, maps, st) ==
    IF st.di > Len(doc.dayEntries)
    THEN [st EXCEPT !.dpc = "done"]
    ELSE LET ms == FreeTimestamp(doc.dayEntries[st.di].datetime, st.seen)
             b == BuildEntry(maps, doc.dayEntries[st.di], ms)
         IN  IF b.raised
             THEN [st EXCEPT !.dpc = "failed", !.raised = "KeyError",
                             !.seen = st.seen \cup {ms}, !.epochtime = ms]
             ELSE DecodeEntries(doc, maps,
                                [st EXCEPT !.di = st.di + 1,
                                           !.day_entries = Append(st.day_entries, b.entry),
                                           !.seen = st.seen \cup {ms},
                                           !.epochtime = ms])

\* DaylioJournal(asset) run to its end: the decoder's variables when it returns
\* or raises
DecodeRun(doc) ==
    LET bad == {i \in DOMAIN doc.assets : doc.assets[i] \notin {AUDIO, PHOTO}}
        st0 == [dpc |-> "for", raised |-> "", di |-> 1, day_entries |-> <<>>,
                seen |-> {}, epochtime |-> 0]
        st == IF bad # {}
              THEN [st0 EXCEPT !.dpc = "failed", !.raised = "Exception", !.di = 0]
              ELSE DecodeEntries(doc, MapsOf(doc), st0)
    IN  [dpc |-> st.dpc, raised |-> st.raised, version |-> doc.version,
         tags |-> MapsOf(doc).tags, custom_moods |-> MapsOf(doc).custom_moods,
         assets |-> IF bad # {}
                    THEN [i \in {j \in DOMAIN doc.assets : \A x \in bad : j < x}
                            |-> MapsOf(doc).assets[i]]
                    ELSE MapsOf(doc).assets,
         day_entries |-> st.day_entries, seen_entry_timestamps |-> st.seen,
         di |-> st.di, epochtime |-> st.epochtime]

\* lines 142-185: version, tags, moods and assets (the arrays in id order)
DecodeMaps ==
    /\ dpc = "start"
    /\ version' = data.version
    /\ tags' = MapsOf(data).tags
    /\ custom_moods' = MapsOf(data).custom_moods
    /\ IF BadAssets # {}
       THEN /\ assets' = [i \in {j \in DOMAIN data.assets : \A b \in BadAssets : j < b}
                            |-> MapsOf(data).assets[i]]
            /\ raised' = "Exception"
            /\ dpc' = "failed"
            /\ di' = di
       ELSE /\ assets' = MapsOf(data).assets
            /\ raised' = raised
            /\ dpc' = "for"
            /\ di' = 1
    /\ UNCHANGED <<data, day_entries, seen_entry_timestamps, epochtime>>
    /\ UNCHANGED writeVars
    /\ UNCHANGED mainVars

\* lines 187-188: the next day_entry
NextDayEntry ==
    /\ dpc = "for"
    /\ di <= Len(data.dayEntries)
    /\ epochtime' = data.dayEntries[di].datetime
    /\ dpc' = "while"
    /\ UNCHANGED <<data, raised, version, tags, custom_moods, assets, day_entries,
                   seen_entry_timestamps, di>>
    /\ UNCHANGED writeVars
    /\ UNCHANGED mainVars

\* lines 189-191: the timestamp is taken, try the next millisecond
BumpTimestamp ==
    /\ dpc = "while"
    /\ Colliding(epochtime, seen_entry_timestamps)
    /\ epochtime' = Increment(epochtime)
    /\ UNCHANGED <<data, dpc, raised, version, tags, custom_moods, assets, day_entries,
                   seen_entry_timestamps, di>>
    /\ UNCHANGED writeVars
    /\ UNCHANGED mainVars

\* lines 193-209: the timestamp is free; resolve the references and append
AppendDayEntry ==
    /\ dpc = "while"
    /\ ~Colliding(epochtime, seen_entry_timestamps)
    /\ seen_entry_timestamps' = seen_entry_timestamps \cup {epochtime}
    /\ LET b == BuildEntry([tags |-> tags, custom_moods |-> custom_moods,
                             assets |-> assets], data.dayEntries[di], epochtime) IN
       IF b.raised
       THEN /\ raised' = "KeyError"
            /\ dpc' = "failed"
            /\ UNCHANGED <<day_entries, di>>
       ELSE /\ day_entries' = Append(day_entries, b.entry)
            /\ di' = di + 1
            /\ dpc' = "for"
            /\ raised' = raised
    /\ UNCHANGED <<data, version, tags, custom_moods, assets, epochtime>>
    /\ UNCHANGED writeVars
    /\ UNCHANGED mainVars

\* the loop is over: the constructor returns the journal
DecodeDone ==
    /\ dpc = "for"
    /\ di > Len(data.dayEntries)
    /\ dpc' = "done"
    /\ UNCHANGED <<data, raised, version, tags, custom_moods, assets, day_entries,
                   seen_entry_timestamps, di, epochtime>>
    /\ UNCHANGED writeVars
    /\ UNCHANGED mainVars

NextDecode ==
    \/ DecodeMaps
    \/ NextDayEntry
    \/ BumpTimestamp
    \/ AppendDayEntry
    \/ DecodeDone

SpecDecode == InitDecode /\ [][NextDecode]_vars

\* ---- properties of the decoder

\* the decoder taken step by step ends as DecodeRun says
DecodeRunAgrees ==
    dpc \in {"done", "failed"} =>
        <<dpc, raised, version, tags, custom_moods, assets, day_entries,
          seen_entry_timestamps, di, epochtime>>
        = LET r == DecodeRun(data)
          IN  <<r.dpc, r.raised, r.version, r.tags, r.custom_moods, r.assets,
                r.day_entries, r.seen_entry_timestamps, r.di, r.epochtime>>

\* the effective timestamps of the entries decoded before entry i
EarlierMs(i) == {EffectiveMs(day_entries[j]) : j \in 1..(i - 1)}

\* the smallest value >= t that is not in used
MinFree(t, used) ==
    CHOOSE v \in t..(t + Cardinality(used)) :
        v \notin used /\ \A u \in t..(v - 1) : u \in used

\* C1: the effective millisecond timestamps of the decoded day entries are
\* pairwise distinct, also when source datetimes collide.
TimestampsDistinct ==
    \A i, j \in 1..Len(day_entries) :
        i # j => /\ EffectiveMs(day_entries[i]) # EffectiveMs(day_entries[j])
                 /\ day_entries[i].timestamp # day_entries[j].timestamp

\* a journal decoded to the end whose three entries had the same source datetime
TimestampsDistinctWitness ==
    /\ dpc = "done"
    /\ Len(day_entries) = 3
    /\ \A i \in 1..3 : data.dayEntries[i].datetime = data.dayEntries[1].datetime
    /\ EffectiveMs(day_entries[3]) = data.dayEntries[1].datetime + 2

\* C2 as stated: source order is kept, each effective timestamp is the smallest
\* value >= the source datetime not assigned to an earlier entry, and every
\* entry whose source datetime is shared with no other entry of the journal
\* keeps its source datetime.
DedupKeepsUnsharedDatetimes ==
    dpc = "done" =>
        /\ Len(day_entries) = Len(data.dayEntries)
        /\ \A i \in 1..Len(day_entries) :
            /\ day_entries[i].id = data.dayEntries[i].id
            /\ EffectiveMs(day_entries[i])
                 = MinFree(data.dayEntries[i].datetime, EarlierMs(i))
            /\ (\A j \in 1..Len(data.dayEntries) :
                    j # i => data.dayEntries[j].datetime # data.dayEntries[i].datetime)
               => EffectiveMs(day_entries[i]) = data.dayEntries[i].datetime

\* C2 amended: source order is kept, each effective timestamp is the smallest
\* value >= the source datetime not assigned to an earlier entry, and every
\* entry whose source datetime is not the effective timestamp of an earlier
\* entry keeps its source datetime.
DedupOrderedMinimal ==
    /\ dpc = "done" => Len(day_entries) = Len(data.dayEntries)
    /\ \A i \in 1..Len(day_entries) :
        /\ day_entries[i].id = data.dayEntries[i].id
        /\ EffectiveMs(day_entries[i])
             = MinFree(data.dayEntries[i].datetime, EarlierMs(i))
        /\ data.dayEntries[i].datetime \notin EarlierMs(i)
           => EffectiveMs(day_entries[i]) = data.dayEntries[i].datetime

\* two entries with the same source datetime t decoded to t and t + 1, in order
DedupOrderedMinimalWitness ==
    /\ dpc = "done"
    /\ Len(day_entries) = 2
    /\ data.dayEntries[1].datetime = data.dayEntries[2].datetime
    /\ EffectiveMs(day_entries[1]) = data.dayEntries[1].datetime
    /\ EffectiveMs(day_entries[2]) = data.dayEntries[1].datetime + 1

\* the day_entry refers to a mood, tag or asset id the document does not define
Dangling(src) ==
    \/ src.mood \notin DOMAIN data.customMoods
    \/ \E k \in 1..Len(src.tags) : src.tags[k] \notin DOMAIN data.tags
    \/ \E k \in 1..Len(src.assets) : src.assets[k] \notin DOMAIN data.assets

\* the decoded entry holds the objects stored under the ids of its day_entry
Resolved(entry, src) ==
    /\ src.mood \in DOMAIN custom_moods
    /\ entry.mood = custom_moods[src.mood]
    /\ Len(entry.tags) = Len(src.tags)
    /\ \A k \in 1..Len(src.tags) :
        src.tags[k] \in DOMAIN tags /\ entry.tags[k] = tags[src.tags[k]]
    /\ Len(entry.assets) = Len(src.assets)
    /\ \A k \in 1..Len(src.assets) :
        src.assets[k] \in DOMAIN assets /\ entry.assets[k] = assets[src.assets[k]]

\* C6: every decoded entry holds the objects stored under the mood, tag and
\* asset ids it refers to; a document with an entry that refers to an absent id
\* never yields a journal: once the maps are built, decoding ends at the first
\* such entry with the lookup's KeyError (the dangling-reference error), with
\* only the entries before it decoded. (An asset record of unknown type ends
\* the decoder before any entry, with no journal either.)
FailFastOnDangling ==
    /\ \A i \in 1..Len(day_entries) : Resolved(day_entries[i], data.dayEntries[i])
    /\ dpc = "done" => \A i \in 1..Len(data.dayEntries) : ~Dangling(data.dayEntries[i])
    /\ (dpc = "failed" /\ raised = "KeyError") =>
          /\ Dangling(data.dayEntries[di])
          /\ Len(day_entries) = di - 1
          /\ \A i \in 1..(di - 1) : ~Dangling(data.dayEntries[i])
    /\ (dpc = "failed" /\ BadAssets = {}) => raised = "KeyError"
    /\ dpc = "failed" => raised # ""

\* decoding failed on the second entry, after the first was resolved
FailFastOnDanglingWitness ==
    /\ dpc = "failed"
    /\ raised = "KeyError"
    /\ di = 2
    /\ Len(day_entries) = 1
    /\ Len(day_entries[1].tags) = 1

-----------------------------------------------------------------------------
(* main : the export driver                                                *)

\* "<date> - Daylio - <timestamp.timestamp()>.md": the seconds since the epoch
\* printed with their fraction, that is the timestamp to the millisecond
NoteFilename(entry) == entry.timestamp \div 1000

\* asset.file.filename: the checksum and the extension of the sniffed type
AssetFilename(asset) == asset.checksum

\* daylio.load_asset(asset.checksum).data: the archive member of that checksum
AssetData(asset) == [of |-> asset.checksum, stale |-> FALSE]

\* template.render(entry=daily_entry).encode('utf-8'): a function of the entry
Render(entry) == [of |-> entry, stale |-> FALSE]

\* the last "not" left out
IsEmptyWithAssets(entry) ==
    entry.note_html = "" /\ entry.note_title = "" /\ entry.assets # <<>>

\* not note_html and not note_title and not assets
IsEmpty(entry) ==
    entry.note_html = "" /\ entry.note_title = "" /\ entry.assets = <<>>

\* the flag not consulted
VersionRejectedAlways(v, ignore) == v # SUPPORTED_VERSION

\* journal.version != SUPPORTED_VERSION and not ignore_version
VersionRejected(v, ignore) == v # SUPPORTED_VERSION /\ ~ignore

\* the note written before the assets
NoteThenAssets(entry) ==
    [k \in 1..(Len(entry.assets) + 1) |->
        IF k = 1 THEN [kind |-> "note", asset |-> None]
        ELSE [kind |-> "asset", asset |-> entry.assets[k - 1]]]

\* lines 336-368: the files of an entry in the order they are written, the
\* assets in their order and then the note
WriteOrder(entry) ==
    [k \in 1..(Len(entry.assets) + 1) |->
        IF k <= Len(entry.assets)
        THEN [kind |-> "asset", asset |-> entry.assets[k]]
        ELSE [kind |-> "note", asset |-> None]]

\* an identical file counted as nothing
CountWrittenOnly(w) == [exported |-> IF w THEN 1 ELSE 0, skipped |-> 0]

\* if written: exported += 1, else: skipped_existing += 1
CountWrite(w) ==
    [exported |-> IF w THEN 1 ELSE 0, skipped |-> IF w THEN 0 ELSE 1]

\* the skip taken whenever the file exists
SkipExistingAlways(dir, name, ow) == name \in DOMAIN dir

\* os.path.exists(path) and not overwrite
SkipExisting(dir, name, ow) == name \in DOMAIN dir /\ ~ow

\* ---- the archives and directories the program is run on

\* the archive that is exported holds one photo; an entry has it or not
ExportAssets == 1 :> PHOTO
AssetLists == {<<>>, <<1>>}

\* data['dayEntries'] of an archive that is exported: every entry logged at the
\* same instant, the case in which the file names differ only by the dedup
ExportDayEntryArray(n, a, h, t) ==
    [i \in 1..n |-> [id |-> i,
                     datetime |-> 0,
                     mood |-> 1,
                     tags |-> <<1>>,
                     assets |-> a[i],
                     note |-> h[i],
                     note_title |-> t[i]]]

\* entry i of the document as the decoder yields it
DecodedEntry(doc, i) == DecodeRun(doc).day_entries[i]

\* a directory of the files named in names: each absent, holding what the
\* export writes to it (fresh), or holding other bytes
DirsOver(names, fresh) ==
    { [f \in DOMAIN st |-> [fresh[f] EXCEPT !.stale = st[f]]]
        : st \in UNION {[S -> BOOLEAN] : S \in SUBSET names} }

NoteDirs(doc) ==
    LET entryNamed(f) ==
            DecodedEntry(doc, CHOOSE i \in 1..Len(doc.dayEntries) :
                                  NoteFilename(DecodedEntry(doc, i)) = f)
        freshNote(f) == Render(entryNamed(f))
        names == {NoteFilename(DecodedEntry(doc, i)) : i \in 1..Len(doc.dayEntries)}
    IN  DirsOver(names, [f \in names |-> freshNote(f)])

AssetDirs(doc) ==
    LET freshAsset(f) == AssetData(MapsOf(doc).assets[f])
        names == {AssetFilename(MapsOf(doc).assets[i]) : i \in DOMAIN doc.assets}
    IN  DirsOver(names, [f \in names |-> freshAsset(f)])

\* a run of main before its first statement
MainStart ==
    /\ pc = "load"
    /\ ei = 0 /\ si = 0
    /\ written = FALSE
    /\ skipped_existing_asset = 0 /\ skipped_existing_note = 0 /\ skipped_empty = 0
    /\ exported_note = 0 /\ exported_asset = 0
    /\ note_writes = 0 /\ asset_writes = 0

Init ==
    /\ WriteIdle
    /\ \E n \in 0..MaxExportEntries :
         \E a \in [1..n -> AssetLists], h \in [1..n -> {"", "n"}], t \in [1..n -> {"", "t"}] :
           \E v \in Versions :
             data = [version |-> v, tags |-> 1 :> "a", customMoods |-> 1 :> "fine",
                     assets |-> ExportAssets,
                     dayEntries |-> ExportDayEntryArray(n, a, h, t)]
    /\ DecoderStart
    /\ overwrite \in BOOLEAN /\ ignore_version \in BOOLEAN /\ skip_empty \in BOOLEAN
    /\ markdown \in NoteDirs(data)
    /\ images \in AssetDirs(data)
    /\ MainStart
    /\ run = 1 /\ killed1 = FALSE /\ run1_writes = 0
    /\ markdown0 = markdown /\ images0 = images

\* lines 283-284: journal = daylio.load_journal(), the decoder run to its end
LoadJournal ==
    /\ pc = "load"
    /\ \E r \in {DecodeRun(data)} :
        /\ dpc' = r.dpc
        /\ raised' = r.raised
        /\ version' = r.version
        /\ tags' = r.tags
        /\ custom_moods' = r.custom_moods
        /\ assets' = r.assets
        /\ day_entries' = r.day_entries
        /\ seen_entry_timestamps' = r.seen_entry_timestamps
        /\ di' = r.di
        /\ epochtime' = r.epochtime
        /\ pc' = IF r.dpc = "done" THEN "loaded" ELSE "failed"
    /\ UNCHANGED <<ei, si, written, counters, note_writes, asset_writes>>
    /\ UNCHANGED <<data, options, markdown, images, history>>
    /\ UNCHANGED writeVars

\* lines 286-299: the version is not supported and not tolerated
AbortOnVersion ==
    /\ pc = "loaded"
    /\ VersionRejected(version, ignore_version)
    /\ pc' = "aborted"
    /\ UNCHANGED <<ei, si, written, counters, note_writes, asset_writes>>
    /\ UNCHANGED <<options, markdown, images, history>>
    /\ UNCHANGED <<writeVars, decodeVars>>

\* lines 286-315: the version passes; the counters are zero and the loop starts
StartExport ==
    /\ pc = "loaded"
    /\ ~VersionRejected(version, ignore_version)
    /\ pc' = "entry"
    /\ ei' = 1
    /\ UNCHANGED <<si, written, counters, note_writes, asset_writes>>
    /\ UNCHANGED <<options, markdown, images, history>>
    /\ UNCHANGED <<writeVars, decodeVars>>

AtEntry == pc = "entry" /\ ei \in 1..Len(day_entries)

\* lines 321-327: the note file exists and overwrite is not requested
SkipExistingNote ==
    /\ AtEntry
    /\ SkipExisting(markdown, NoteFilename(day_entries[ei]), overwrite)
    /\ skipped_existing_note' = skipped_existing_note + 1
    /\ ei' = ei + 1
    /\ UNCHANGED <<pc, si, written, skipped_existing_asset, skipped_empty,
                   exported_note, exported_asset, note_writes, asset_writes>>
    /\ UNCHANGED <<options, markdown, images, history>>
    /\ UNCHANGED <<writeVars, decodeVars>>

\* lines 329-334: skip_empty and nothing in the entry
SkipEmptyEntry ==
    /\ AtEntry
    /\ ~SkipExisting(markdown, NoteFilename(day_entries[ei]), overwrite)
    /\ skip_empty /\ IsEmpty(day_entries[ei])
    /\ skipped_empty' = skipped_empty + 1
    /\ ei' = ei + 1
    /\ UNCHANGED <<pc, si, written, skipped_existing_asset, skipped_existing_note,
                   exported_note, exported_asset, note_writes, asset_writes>>
    /\ UNCHANGED <<options, markdown, images, history>>
    /\ UNCHANGED <<writeVars, decodeVars>>

\* neither skip applies: the entry is exported
BeginEntry ==
    /\ AtEntry
    /\ ~SkipExisting(markdown, NoteFilename(day_entries[ei]), overwrite)
    /\ ~(skip_empty /\ IsEmpty(day_entries[ei]))
    /\ pc' = "write"
    /\ si' = 1
    /\ UNCHANGED <<ei, written, counters, note_writes, asset_writes>>
    /\ UNCHANGED <<options, markdown, images, history>>
    /\ UNCHANGED <<writeVars, decodeVars>>

AtWrite == pc = "write" /\ si \in 1..Len(WriteOrder(day_entries[ei]))
Step == WriteOrder(day_entries[ei])[si]

\* lines 337-344: the asset file exists and overwrite is not requested
SkipExistingAsset ==
    /\ AtWrite /\ Step.kind = "asset"
    /\ SkipExisting(images, AssetFilename(Step.asset), overwrite)
    /\ skipped_existing_asset' = skipped_existing_asset + 1
    /\ si' = si + 1
    /\ UNCHANGED <<pc, ei, written, skipped_existing_note, skipped_empty,
                   exported_note, exported_asset, note_writes, asset_writes>>
    /\ UNCHANGED <<options, markdown, images, history>>
    /\ UNCHANGED <<writeVars, decodeVars>>

\* lines 346-354: the asset goes through write_file_if_unchanged
ExportAsset ==
    /\ AtWrite /\ Step.kind = "asset"
    /\ ~SkipExisting(images, AssetFilename(Step.asset), overwrite)
    /\ LET r == write_file_if_unchanged(images, AssetFilename(Step.asset),
                                        AssetData(Step.asset))
       IN  /\ images' = r.dir
           /\ written' = r.written
           /\ asset_writes' = asset_writes + (IF images' # images THEN 1 ELSE 0)
           /\ exported_asset' = exported_asset + CountWrite(r.written).exported
           /\ skipped_existing_asset' = skipped_existing_asset + CountWrite(r.written).skipped
    /\ si' = si + 1
    /\ UNCHANGED <<pc, ei, skipped_existing_note, skipped_empty, exported_note, note_writes>>
    /\ UNCHANGED <<options, markdown, history>>
    /\ UNCHANGED <<writeVars, decodeVars>>

\* lines 356-368: the note is rendered and goes through write_file_if_unchanged
ExportNote ==
    /\ AtWrite /\ Step.kind = "note"
    /\ LET r == write_file_if_unchanged(markdown, NoteFilename(day_entries[ei]),
                                        Render(day_entries[ei]))
       IN  /\ markdown' = r.dir
           /\ written' = r.written
           /\ note_writes' = note_writes + (IF markdown' # markdown THEN 1 ELSE 0)
           /\ exported_note' = exported_note + CountWrite(r.written).exported
           /\ skipped_existing_note' = skipped_existing_note + CountWrite(r.written).skipped
    /\ si' = si + 1
    /\ UNCHANGED <<pc, ei, skipped_existing_asset, skipped_empty, exported_asset, asset_writes>>
    /\ UNCHANGED <<options, images, history>>
    /\ UNCHANGED <<writeVars, decodeVars>>

\* lines 370-372: the entry is done, on to the next
EndEntry ==
    /\ pc = "write" /\ si > Len(WriteOrder(day_entries[ei]))
    /\ pc' = "entry"
    /\ ei' = ei + 1
    /\ UNCHANGED <<si, written, counters, note_writes, asset_writes>>
    /\ UNCHANGED <<options, markdown, images, history>>
    /\ UNCHANGED <<writeVars, decodeVars>>

\* lines 374-377: the loop is over, the summary is printed
Finish ==
    /\ pc = "entry" /\ ei > Len(day_entries)
    /\ pc' = "done"
    /\ UNCHANGED <<ei, si, written, counters, note_writes, asset_writes>>
    /\ UNCHANGED <<options, markdown, images, history>>
    /\ UNCHANGED <<writeVars, decodeVars>>

\* a new process on the same archive, directories and options: nothing of
\* the run before is left but the files
Restart ==
    /\ run' = 2
    /\ run1_writes' = note_writes + asset_writes
    /\ pc' = "load"
    /\ ei' = 0 /\ si' = 0
    /\ written' = FALSE
    /\ skipped_existing_asset' = 0 /\ skipped_existing_note' = 0 /\ skipped_empty' = 0
    /\ exported_note' = 0 /\ exported_asset' = 0
    /\ note_writes' = 0 /\ asset_writes' = 0
    /\ dpc' = "start"
    /\ raised' = ""
    /\ version' = 0
    /\ tags' = <<>>
    /\ custom_moods' = <<>>
    /\ assets' = <<>>
    /\ day_entries' = <<>>
    /\ seen_entry_timestamps' = {}
    /\ di' = 0
    /\ epochtime' = 0
    /\ UNCHANGED <<data, options, markdown, images, markdown0, images0>>
    /\ UNCHANGED writeVars

\* the first run is terminated between two of its steps, the files written so
\* far stay, and the program is run again
TerminateAndRerun ==
    /\ run = 1
    /\ pc \in {"load", "loaded", "entry", "write"}
    /\ killed1' = TRUE
    /\ Restart

\* the first run ended, and the program is run again
Rerun ==
    /\ run = 1
    /\ pc = "done"
    /\ killed1' = killed1
    /\ Restart

Next ==
    \/ LoadJournal
    \/ AbortOnVersion
    \/ StartExport
    \/ SkipExistingNote
    \/ SkipEmptyEntry
    \/ BeginEntry
    \/ SkipExistingAsset
    \/ ExportAsset
    \/ ExportNote
    \/ EndEntry
    \/ Finish
    \/ TerminateAndRerun
    \/ Rerun

Spec == Init /\ [][Next]_vars

\* ---- one run of main, never terminated, as a function of the directories

\* lines 337-368 for one file of the entry
WriteStep(d, entry, step) ==
    IF step.kind = "asset"
    THEN IF SkipExisting(d.images, AssetFilename(step.asset), overwrite)
         THEN d
         ELSE [d EXCEPT !.images = write_file_if_unchanged(
                                       d.images, AssetFilename(step.asset),
                                       AssetData(step.asset)).dir]
    ELSE [d EXCEPT !.markdown = write_file_if_unchanged(
                                    d.markdown, NoteFilename(entry), Render(entry)).dir]

RECURSIVE WriteFrom(_, _, _)
WriteFrom(d, entry, k) ==
    IF k > Len(WriteOrder(entry)) THEN d
    ELSE WriteFrom(WriteStep(d, entry, WriteOrder(entry)[k]), entry, k + 1)

\* lines 321-372 for one entry
ExportEntry(d, entry) ==
    IF SkipExisting(d.markdown, NoteFilename(entry), overwrite) THEN d
    ELSE IF skip_empty /\ IsEmpty(entry) THEN d
    ELSE WriteFrom(d, entry, 1)

\* lines 315-372: the loop from entry i on
RECURSIVE ExportFrom(_, _, _)
ExportFrom(d, entries, i) ==
    IF i > Len(entries) THEN d
    ELSE ExportFrom(ExportEntry(d, entries[i]), entries, i + 1)

\* the directories one whole run leaves, started on the directories as they
\* were before the first run
UninterruptedRun ==
    ExportFrom([markdown |-> markdown0, images |-> images0],
               DecodeRun(data).day_entries, 1)

\* ---- properties of main

\* the entry main is at has no title, no note body and no assets
EntryIsBlank ==
    /\ day_entries[ei].note_html = ""
    /\ day_entries[ei].note_title = ""
    /\ Len(day_entries[ei].assets) = 0

\* the note file of the entry main is at exists
NoteExists == NoteFilename(day_entries[ei]) \in DOMAIN markdown

\* a step of the running process (not its end and the start of the next run)
SameRun == run' = run

\* C3: in a run that follows a complete run over the same archive, directories
\* and options, both without overwrite, no file is written and exported_note
\* and exported_asset stay 0.
SecondRunWritesNothing ==
    (run = 2 /\ ~killed1 /\ ~overwrite) =>
        /\ note_writes = 0 /\ asset_writes = 0
        /\ exported_note = 0 /\ exported_asset = 0

\* the second run ended, after a first run that wrote the note and the asset
SecondRunWritesNothingWitness ==
    /\ run = 2 /\ ~killed1 /\ ~overwrite
    /\ pc = "done"
    /\ run1_writes = 2
    /\ skipped_existing_note = 1

\* C4 as stated: with skip_empty, an entry with no title, no note body and no
\* assets gets no note file written and is counted under skipped_empty,
\* whatever the output directory holds and whatever overwrite is.
BlankAlwaysCountedEmpty ==
    [][(AtEntry /\ SameRun /\ skip_empty /\ EntryIsBlank) =>
          /\ markdown' = markdown
          /\ skipped_empty' = skipped_empty + 1]_vars

\* C4 amended: with skip_empty, an entry with no title, no note body and no
\* assets gets no file written by the run; it is counted under skipped_empty,
\* unless its note file exists and overwrite is not requested: then the
\* existing-note check, which comes first, counts it under
\* skipped_existing_note.
BlankSkipped ==
    [][(AtEntry /\ SameRun /\ skip_empty /\ EntryIsBlank) =>
          /\ markdown' = markdown /\ images' = images
          /\ note_writes' = note_writes /\ asset_writes' = asset_writes
          /\ pc' = "entry" /\ ei' = ei + 1
          /\ exported_note' = exported_note
          /\ IF NoteExists /\ ~overwrite
             THEN /\ skipped_existing_note' = skipped_existing_note + 1
                  /\ skipped_empty' = skipped_empty
             ELSE /\ skipped_empty' = skipped_empty + 1
                  /\ skipped_existing_note' = skipped_existing_note]_vars

\* a blank entry was skipped as empty although its note file exists (overwrite)
BlankSkippedWitness ==
    /\ run = 1 /\ pc = "entry" /\ ei = 2
    /\ skip_empty /\ overwrite
    /\ skipped_empty = 1
    /\ day_entries[1].note_html = "" /\ day_entries[1].note_title = ""
    /\ Len(day_entries[1].assets) = 0
    /\ NoteFilename(day_entries[1]) \in DOMAIN markdown

\* the states of the version policy
VersionPolicyStates ==
    /\ pc # "failed"
    /\ pc \notin {"load", "idle"} =>
          /\ dpc = "done"
          /\ version = data.version
          /\ Len(day_entries) = Len(data.dayEntries)
    /\ pc = "aborted" <=>
          (pc \notin {"load", "loaded"} /\ data.version # SUPPORTED_VERSION /\ ~ignore_version)
    /\ pc = "aborted" =>
          /\ markdown = markdown0 /\ images = images0
          /\ note_writes = 0 /\ asset_writes = 0
          /\ ei = 0
          /\ skipped_existing_asset = 0 /\ skipped_existing_note = 0
          /\ skipped_empty = 0 /\ exported_note = 0 /\ exported_asset = 0
    /\ pc = "done" =>
          /\ ei = Len(day_entries) + 1
          /\ skipped_empty + skipped_existing_note + exported_note = Len(day_entries)

\* C7: the decoder decodes every version; main aborts exactly when the decoded
\* version is not SUPPORTED_VERSION and ignore_version is not set, before any
\* entry is processed and with no file written; otherwise the export starts
\* and a run that ends has gone over all entries.
VersionPolicy ==
    /\ []VersionPolicyStates
    /\ [][(pc = "loaded" /\ SameRun /\ (version = SUPPORTED_VERSION \/ ignore_version)) =>
             (pc' = "entry" /\ ei' = 1)]_vars
    /\ [][(pc = "loaded" /\ SameRun /\ version # SUPPORTED_VERSION /\ ~ignore_version) =>
             pc' = "aborted"]_vars

\* main aborted on a version that is not 15
VersionPolicyWitness ==
    /\ pc = "aborted"
    /\ version = SUPPORTED_VERSION + 1
    /\ ~ignore_version
    /\ Len(day_entries) = 1

\* C8: when the first run is terminated between two of its steps and the
\* program is then run to its end on the same archive and options, the files
\* and their contents are those one run that is never terminated leaves,
\* started on the same directories.
RerunConverges ==
    (run = 2 /\ killed1 /\ pc = "done") =>
        /\ markdown = UninterruptedRun.markdown
        /\ images = UninterruptedRun.images

\* the first run was terminated after it wrote the asset and before it wrote
\* the note; the second run wrote the note
RerunConvergesWitness ==
    /\ run = 2 /\ killed1 /\ pc = "done"
    /\ run1_writes = 1
    /\ note_writes = 1
    /\ asset_writes = 0

\* the two kinds of skip, of a note and of an asset
PathNoteSkip == AtEntry /\ SameRun /\ NoteExists /\ ~overwrite

IdenticalNoteSkip ==
    /\ AtWrite /\ SameRun /\ Step.kind = "note"
    /\ NoteExists /\ markdown[NoteFilename(day_entries[ei])] = Render(day_entries[ei])

PathAssetSkip ==
    /\ AtWrite /\ SameRun /\ Step.kind = "asset"
    /\ AssetFilename(Step.asset) \in DOMAIN images /\ ~overwrite

IdenticalAssetSkip ==
    /\ AtWrite /\ SameRun /\ Step.kind = "asset"
    /\ AssetFilename(Step.asset) \in DOMAIN images /\ overwrite
    /\ images[AssetFilename(Step.asset)] = AssetData(Step.asset)

\* C9 as stated: the skip of an existing path and the skip of identical content
\* never increment the same counter: the skip of an existing path increments
\* skipped_existing_note (skipped_existing_asset for an asset), so the skip of
\* identical content does not.
SkipKindsCountedApart ==
    [][/\ IdenticalNoteSkip => skipped_existing_note' = skipped_existing_note
       /\ IdenticalAssetSkip => skipped_existing_asset' = skipped_existing_asset]_vars

\* C9 amended: the two kinds of skip are separate branches of main but share a
\* counter: for a note both increment skipped_existing_note, for an asset both
\* increment skipped_existing_asset, and neither writes nor counts an export.
SkipKindsShareCounter ==
    [][/\ PathNoteSkip =>
            /\ skipped_existing_note' = skipped_existing_note + 1
            /\ exported_note' = exported_note /\ markdown' = markdown
       /\ IdenticalNoteSkip =>
            /\ skipped_existing_note' = skipped_existing_note + 1
            /\ exported_note' = exported_note /\ markdown' = markdown
            /\ written' = FALSE
       /\ PathAssetSkip =>
            /\ skipped_existing_asset' = skipped_existing_asset + 1
            /\ exported_asset' = exported_asset /\ images' = images
       /\ IdenticalAssetSkip =>
            /\ skipped_existing_asset' = skipped_existing_asset + 1
            /\ exported_asset' = exported_asset /\ images' = images
            /\ written' = FALSE]_vars

\* with overwrite, a note with identical content was counted as an existing note
SkipKindsShareCounterWitness ==
    /\ run = 1 /\ overwrite
    /\ pc = "write" /\ si = Len(WriteOrder(day_entries[ei])) + 1
    /\ written = FALSE
    /\ skipped_existing_note = 1
    /\ exported_note = 0

\* the counters in every state of a run
CountersStates ==
    /\ exported_note = note_writes
    /\ exported_asset = asset_writes
    /\ pc = "entry" =>
          skipped_empty + skipped_existing_note + exported_note = ei - 1
    /\ pc = "write" =>
          skipped_empty + skipped_existing_note + exported_note
            = (ei - 1) + (IF si > Len(day_entries[ei].assets) + 1 THEN 1 ELSE 0)
    /\ pc = "done" =>
          /\ skipped_empty + skipped_existing_note + exported_note = Len(day_entries)
          /\ ei = Len(day_entries) + 1

\* exactly one of two counters went up by one
OneOf(a, a2, b, b2) == (a2 = a + 1 /\ b2 = b) \/ (a2 = a /\ b2 = b + 1)

\* the counters over every step of a run
CountersSteps ==
    /\ (AtEntry /\ SameRun) =>
          /\ exported_note' = exported_note
          /\ skipped_existing_asset' = skipped_existing_asset
          /\ exported_asset' = exported_asset
          /\ IF NoteExists /\ ~overwrite
             THEN /\ skipped_existing_note' = skipped_existing_note + 1
                  /\ skipped_empty' = skipped_empty
                  /\ pc' = "entry" /\ ei' = ei + 1
             ELSE IF skip_empty /\ EntryIsBlank
             THEN /\ skipped_empty' = skipped_empty + 1
                  /\ skipped_existing_note' = skipped_existing_note
                  /\ pc' = "entry" /\ ei' = ei + 1
             ELSE /\ skipped_empty' = skipped_empty
                  /\ skipped_existing_note' = skipped_existing_note
                  /\ pc' = "write" /\ ei' = ei
    /\ (AtWrite /\ SameRun /\ Step.kind = "asset") =>
          /\ OneOf(skipped_existing_asset, skipped_existing_asset',
                   exported_asset, exported_asset')
          /\ skipped_empty' = skipped_empty
          /\ skipped_existing_note' = skipped_existing_note
          /\ exported_note' = exported_note
    /\ (AtWrite /\ SameRun /\ Step.kind = "note") =>
          /\ OneOf(skipped_existing_note, skipped_existing_note',
                   exported_note, exported_note')
          /\ exported_note' = exported_note + 1 <=> markdown' # markdown
          /\ skipped_empty' = skipped_empty
          /\ skipped_existing_asset' = skipped_existing_asset
          /\ exported_asset' = exported_asset

\* C10: every day entry increments exactly one of skipped_empty,
\* skipped_existing_note and exported_note, the existing-note check first, then
\* the empty check, then the write; every asset of an entry that passed both
\* checks increments exactly one of skipped_existing_asset and exported_asset;
\* at the end the three note counters add up to the number of entries; and
\* exported_note is the number of note files the run wrote.
CounterPartition == []CountersStates /\ [][CountersSteps]_vars

\* a run that ended with the asset and the note of its entry exported
CounterPartitionWitness ==
    /\ run = 1 /\ pc = "done"
    /\ Len(day_entries) = 1
    /\ exported_note = 1 /\ exported_asset = 1
    /\ skipped_empty = 0 /\ skipped_existing_note = 0 /\ skipped_existing_asset = 0

====
